---- MODULE Spec2Model ----
(***************************************************************************)
(* Wishlisht: a wishlist single-page application.                          *)
(*                                                                         *)
(* Server (Hono worker over a D1 table `items`):                           *)
(*   GET /api/items, POST /api/items, PUT /api/items/:id,                  *)
(*   DELETE /api/items/:id.                                                *)
(* Client (React component App): items list, category filter, modal form,  *)
(*   handleSubmit, handleDelete, handleDragEnd, fetchItems.                *)
(*                                                                         *)
(* Strings that are only compared are TLA+ strings.  A url is a sequence   *)
(* of tokens (a scheme prefix, a host, a blank) so that trimming, the      *)
(* scheme test and the prepending of "https://" are computed.  A JSON body *)
(* is a record of the six keys, each holding the empty set (the key is     *)
(* absent and reads as `undefined` after destructuring) or the singleton   *)
(* of its value.                                                           *)
(***************************************************************************)
EXTENDS Integers, Sequences, FiniteSets, TLC

VARIABLES
  db,             \* table items: id -> row
  nextId,         \* AUTOINCREMENT: the next id, never reused
  now,            \* unixepoch() of the store
  req,            \* API request in flight from an arbitrary caller
  reply,          \* the last HTTP response to the arbitrary caller
  items,          \* client state: const [items, setItems]
  activeCategory, \* client state: the category filter
  isModalOpen,    \* client state
  isSubmitting,   \* client state
  editingItem,    \* client state: the item being edited, or NoItem
  formData,       \* client state: the modal's form
  alerts,         \* number of alert() notices shown
  call,           \* the modal's request awaited by handleSubmit / handleDelete
  gets,           \* GET /api/items requests issued by fetchItems, not yet served
  resps,          \* responses of GET /api/items on their way to the client
  puts,           \* PUT {priority} requests issued by handleDragEnd, in issue order
  lastDrag,       \* history: the last DragEndEvent handled and what it computed
  track,          \* history: what became of the PUT {priority} requests
  outcome         \* history: how the last modal request ended

vars == <<db, nextId, now, req, reply, items, activeCategory, isModalOpen,
          isSubmitting, editingItem, formData, alerts, call, gets, resps,
          puts, lastDrag, track, outcome>>

serverVars == <<db, nextId, now>>
apiVars    == <<req, reply>>
clientVars == <<items, activeCategory, isModalOpen, isSubmitting, editingItem,
                formData, alerts, call, gets, resps, puts, lastDrag, track,
                outcome>>

---------------------------------------------------------------------------
(* Bounds of the model *)

MaxRows == 3          \* rows of the table (ids 1..MaxRows)
MaxTime == 1          \* the clock runs 0..MaxTime
MaxInFlight == 4      \* PUT {priority} requests in flight at once
MaxGets == 1          \* GET requests (and responses) in flight at once
MaxAlerts == 1        \* alert() notices counted
MaxFields == 2        \* keys in the body of an arbitrary caller's PUT
MaxApiRows == 2       \* rows ever inserted by arbitrary callers
MaxFormRows == 1      \* rows ever inserted through the modal
MaxCreateRows == 3    \* rows ever inserted through the modal, with deletes

Min(a, b) == IF a < b THEN a ELSE b
Max(a, b) == IF a > b THEN a ELSE b

Perms(S) == {s \in [1..Cardinality(S) -> S] : \A i, j \in DOMAIN s : i # j => s[i] # s[j]}

---------------------------------------------------------------------------
(* Values *)

Null == "NULL"            \* JSON null / SQL NULL in a text or numeric column
NoItem == [id |-> 0]      \* editingItem = null
\* no DragEndEvent handled yet
NoDrag ==
  [active |-> 0, over |-> 0, category |-> "All", view |-> << >>, old |-> << >>,
   new |-> << >>, pre |-> << >>, clean |-> TRUE]
\* no PUT {priority} request issued yet
NoTrack == [moved |-> FALSE, failed |-> {}, overtaken |-> FALSE]
NoCall == [kind |-> "none"]
NoReq == [op |-> "none"]

Fields == {"name", "price", "url", "image_key", "category", "priority"}

\* const categories = ['All', 'Toys', 'Clothing', 'Furniture', 'Tech', 'Other']
categories == {"All", "Toys", "Tech"}

\* url tokens
Blank == " "
Schemes == {"http://", "https://", "HTTP://"}

(* A JSON body: each key holds the empty set (key absent: undefined) or a   *)
(* singleton (key present with that value).                                 *)
Absent == {}
Present(body, f) == body[f] # Absent
Val(x) == CHOOSE v \in x : TRUE
Opt(S) == {Absent} \cup {{v} : v \in S}

NameValues == {"a", "", Null}
PriceValues == {"5", Null}
UrlValues == {<< >>, <<"example.com">>}
ImageKeyValues == {"k"}
CategoryValues == {"Toys", ""}
PriorityValues == {0, 1}

Bodies ==
  [name : Opt(NameValues), price : Opt(PriceValues), url : Opt(UrlValues),
   image_key : Opt(ImageKeyValues), category : Opt(CategoryValues),
   priority : Opt(PriorityValues)]

EmptyBody ==
  [name |-> Absent, price |-> Absent, url |-> Absent, image_key |-> Absent,
   category |-> Absent, priority |-> Absent]

PresentFields(body) == {f \in Fields : Present(body, f)}

---------------------------------------------------------------------------
(* The store and the item API *)

\* ORDER BY priority ASC, created_at ASC
OrderBeforeOldestFirst(r1, r2) ==
  \/ r1.priority < r2.priority
  \/ r1.priority = r2.priority /\ r1.created_at < r2.created_at

\* SELECT ... ORDER BY priority ASC, created_at DESC: r1 must come before r2
OrderBefore(r1, r2) ==
  \/ r1.priority < r2.priority
  \/ r1.priority = r2.priority /\ r1.created_at > r2.created_at

\* a row as the JSON object GET returns (SELECT *)
Result(d, id) ==
  [id |-> id, name |-> d[id].name, price |-> d[id].price, url |-> d[id].url,
   image_key |-> d[id].image_key, category |-> d[id].category,
   priority |-> d[id].priority, created_at |-> d[id].created_at]

\* app.get('/api/items'): every result list the ORDER BY clause allows (rows
\* equal in both keys come in an order SQL leaves open)
GetItems(d) ==
  LET n == Cardinality(DOMAIN d)
      orders == {p \in Perms(DOMAIN d) :
                   \A i, j \in 1..n : i < j => ~OrderBefore(d[p[j]], d[p[i]])}
  IN {[k \in 1..n |-> Result(d, p[k])] : p \in orders}

\* `x || dflt` of JavaScript on a text value
OrText(x, dflt) == IF x = Absent \/ Val(x) = "" \/ Val(x) = Null THEN dflt ELSE Val(x)
\* `x || dflt` of JavaScript on a number
OrNumber(x, dflt) == IF x = Absent \/ Val(x) = 0 THEN dflt ELSE Val(x)

\* app.post('/api/items'): INSERT INTO items (...) VALUES (?, ?, ?, ?, ?, ?)
\* bind() of D1 throws on an undefined value; name is NOT NULL; an uncaught
\* exception is answered 500 by Hono.
PostItem(d, id, t, body) ==
  IF \E f \in {"name", "price", "url", "image_key"} : ~Present(body, f)
  THEN [db |-> d, status |-> 500, id |-> 0]
  ELSE IF Val(body.name) = Null
  THEN [db |-> d, status |-> 500, id |-> 0]
  ELSE [db |-> (id :> [name |-> Val(body.name), price |-> Val(body.price),
                       url |-> Val(body.url), image_key |-> Val(body.image_key),
                       category |-> OrText(body.category, "uncategorized"),
                       priority |-> OrNumber(body.priority, 0),
                       created_at |-> t]) @@ d,
        status |-> 200, id |-> id]

\* one line `if (f !== undefined) { updates.push('f = ?'); values.push(f) }`
Assign(body, f, old) == IF Present(body, f) THEN Val(body[f]) ELSE old

\* app.put('/api/items/:id') with `if (name)` for `if (name !== undefined)`
PutItemIfName(d, id, body) ==
  IF PresentFields(body) = {} THEN [db |-> d, status |-> 200]
  ELSE IF id \notin DOMAIN d THEN [db |-> d, status |-> 200]
  ELSE LET old == d[id]
           row == [name |-> IF Present(body, "name") /\ body.name # {""}
                            THEN Val(body.name) ELSE old.name,
                   price |-> Assign(body, "price", old.price),
                   url |-> Assign(body, "url", old.url),
                   image_key |-> Assign(body, "image_key", old.image_key),
                   category |-> Assign(body, "category", old.category),
                   priority |-> Assign(body, "priority", old.priority),
                   created_at |-> old.created_at]
       IN IF row.name = Null
          THEN [db |-> d, status |-> 500]
          ELSE [db |-> [d EXCEPT ![id] = row], status |-> 200]

\* app.put('/api/items/:id'): UPDATE items SET <the keys present> WHERE id = ?
PutItem(d, id, body) ==
  IF PresentFields(body) = {} THEN [db |-> d, status |-> 200]
  ELSE IF id \notin DOMAIN d THEN [db |-> d, status |-> 200]
  ELSE LET old == d[id]
           row == [name |-> Assign(body, "name", old.name),
                   price |-> Assign(body, "price", old.price),
                   url |-> Assign(body, "url", old.url),
                   image_key |-> Assign(body, "image_key", old.image_key),
                   category |-> Assign(body, "category", old.category),
                   priority |-> Assign(body, "priority", old.priority),
                   created_at |-> old.created_at]
       IN IF row.name = Null                      \* name TEXT NOT NULL
          THEN [db |-> d, status |-> 500]
          ELSE [db |-> [d EXCEPT ![id] = row], status |-> 200]

\* app.delete('/api/items/:id'): DELETE FROM items WHERE id = ?
DeleteItem(d, id) ==
  [db |-> [i \in DOMAIN d \ {id} |-> d[i]], status |-> 200]

\* created_at INTEGER DEFAULT (unixepoch()): the clock of the store advances
Tick ==
  /\ now < MaxTime
  /\ now' = now + 1
  /\ UNCHANGED <<db, nextId, apiVars, clientVars>>

---------------------------------------------------------------------------
(* Arbitrary callers of the API: one request in flight, then its response *)

PutBodies == {b \in Bodies : Cardinality(PresentFields(b)) <= MaxFields}

ApiRequests ==
  {[op |-> "GET"]}
    \cup {[op |-> "POST", body |-> b] : b \in Bodies}
    \cup {[op |-> "PUT", id |-> i, body |-> b] : i \in 1..(MaxApiRows + 1), b \in PutBodies}
    \cup {[op |-> "DELETE", id |-> i] : i \in 1..(MaxApiRows + 1)}

\* the requests that probe the order of the listing: inserts with and
\* without a priority, updates of one key, deletes
StoreRequests ==
  {[op |-> "GET"]}
    \cup {[op |-> "POST",
           body |-> [name |-> {"a"}, price |-> {"5"}, url |-> {<<"example.com">>},
                     image_key |-> {"k"}, category |-> Absent, priority |-> p]] :
            p \in Opt(0..(MaxRows - 1))}
    \cup {[op |-> "PUT", id |-> i, body |-> [EmptyBody EXCEPT !.priority = {p}]] :
            i \in 1..(MaxRows + 1), p \in 0..(MaxRows - 1)}
    \cup {[op |-> "PUT", id |-> i, body |-> [EmptyBody EXCEPT !.name = {""}]] :
            i \in 1..(MaxRows + 1)}
    \cup {[op |-> "DELETE", id |-> i] : i \in 1..(MaxRows + 1)}

ApiSend(requests, maxRows) ==
  /\ req = NoReq
  /\ \E r \in requests :
       /\ r.op = "POST" => nextId <= maxRows
       /\ req' = r
  /\ reply' = NoReq
  /\ UNCHANGED <<serverVars, clientVars>>

ApiGet ==
  /\ req.op = "GET"
  /\ \E list \in GetItems(db) : reply' = [op |-> "GET", status |-> 200, list |-> list]
  /\ req' = NoReq
  /\ UNCHANGED <<serverVars, clientVars>>

ApiPost ==
  /\ req.op = "POST"
  /\ LET r == PostItem(db, nextId, now, req.body)
     IN /\ db' = r.db
        /\ nextId' = IF r.status = 200 THEN nextId + 1 ELSE nextId
        /\ reply' = [op |-> "POST", status |-> r.status, id |-> r.id]
  /\ req' = NoReq
  /\ UNCHANGED <<now, clientVars>>

ApiPut ==
  /\ req.op = "PUT"
  /\ LET r == PutItem(db, req.id, req.body)
     IN /\ db' = r.db
        /\ reply' = [op |-> "PUT", status |-> r.status]
  /\ req' = NoReq
  /\ UNCHANGED <<nextId, now, clientVars>>

ApiDelete ==
  /\ req.op = "DELETE"
  /\ LET r == DeleteItem(db, req.id)
     IN /\ db' = r.db
        /\ reply' = [op |-> "DELETE", status |-> r.status]
  /\ req' = NoReq
  /\ UNCHANGED <<nextId, now, clientVars>>

InitClientIdle ==
  /\ items = << >>
  /\ activeCategory = "All"
  /\ isModalOpen = FALSE
  /\ isSubmitting = FALSE
  /\ editingItem = NoItem
  /\ formData = [name |-> "", price |-> "", url |-> << >>, category |-> "Toys",
                 currentImageKey |-> ""]
  /\ alerts = 0
  /\ call = NoCall
  /\ gets = 0
  /\ resps = {}
  /\ puts = << >>
  /\ lastDrag = NoDrag
  /\ track = NoTrack
  /\ outcome = "none"

\* schema.sql: the table is created empty
InitApi ==
  /\ db = << >>
  /\ nextId = 1
  /\ now = 0
  /\ req = NoReq
  /\ reply = NoReq
  /\ InitClientIdle

NextApi ==
  \/ ApiSend(ApiRequests, MaxApiRows)
  \/ ApiGet
  \/ ApiPost
  \/ ApiPut
  \/ ApiDelete

SpecApi == InitApi /\ [][NextApi]_vars

NextStore ==
  \/ ApiSend(StoreRequests, MaxRows)
  \/ ApiGet
  \/ ApiPost
  \/ ApiPut
  \/ ApiDelete
  \/ Tick

SpecStore == InitApi /\ [][NextStore]_vars

---------------------------------------------------------------------------
(* Client: pure helpers *)

ItemIds(list) == [k \in 1..Len(list) |-> list[k].id]
Range(f) == {f[k] : k \in DOMAIN f}

\* Array.prototype.findIndex((i) => i.id === id): zero-based, -1 when absent
FindIndex(list, id) ==
  IF \E k \in 1..Len(list) : list[k].id = id
  THEN (CHOOSE k \in 1..Len(list) :
          /\ list[k].id = id
          /\ \A m \in 1..(k - 1) : list[m].id # id) - 1
  ELSE -1

\* the start index Array.prototype.splice uses for an array of length len
SpliceStart(len, start) == IF start < 0 THEN Max(len + start, 0) ELSE Min(start, len)

\* array without the element at zero-based index k
RemoveAt(array, k) ==
  [m \in 1..(Len(array) - 1) |-> IF m <= k THEN array[m] ELSE array[m + 1]]

\* array with x inserted so that it has zero-based index k
InsertAt(array, k, x) ==
  [m \in 1..(Len(array) + 1) |->
     IF m <= k THEN array[m] ELSE IF m = k + 1 THEN x ELSE array[m - 1]]

\* arrayMove replaced by an exchange of the two positions
ArrayMoveSwap(array, from, to) ==
  [k \in 1..Len(array) |->
     IF k = from + 1 THEN array[to + 1]
     ELSE IF k = to + 1 THEN array[from + 1]
     ELSE array[k]]

\* arrayMove of @dnd-kit/sortable:
\*   newArray.splice(to < 0 ? newArray.length + to : to, 0, newArray.splice(from, 1)[0])
\* the target index is computed before the element is removed
ArrayMove(array, from, to) ==
  LET target == IF to < 0 THEN Len(array) + to ELSE to
      f == SpliceStart(Len(array), from)
      rest == RemoveAt(array, f)
  IN IF f >= Len(array) THEN array
     ELSE InsertAt(rest, SpliceStart(Len(rest), target), array[f + 1])

\* String.prototype.trim on a url: blanks at both ends go
RECURSIVE TrimStart(_)
TrimStart(u) == IF u # << >> /\ Head(u) = Blank THEN TrimStart(Tail(u)) ELSE u
RECURSIVE TrimEnd(_)
TrimEnd(u) ==
  IF u # << >> /\ u[Len(u)] = Blank THEN TrimEnd(SubSeq(u, 1, Len(u) - 1)) ELSE u
Trim(u) == TrimEnd(TrimStart(u))

\* /^https?:\/\//i.test(u)
HasScheme(u) == u # << >> /\ Head(u) \in Schemes

\* handleSubmit: "Prepend https:// if missing"
SubmitUrl(u) ==
  LET submitUrl == Trim(u)
  IN IF submitUrl # << >> /\ ~HasScheme(submitUrl)
     THEN <<"https://">> \o submitUrl
     ELSE submitUrl

\* parseFloat of a decimal literal the number input accepts, as the canonical
\* literal of the number; Number.prototype.toString gives that literal back
ParseFloat(t) == IF t = "12.50" THEN "12.5" ELSE t
NumberToString(n) == n

\* const filteredItems = activeCategory === 'All' ? items : items.filter(...)
filteredItems ==
  IF activeCategory = "All" THEN items
  ELSE SelectSeq(items, LAMBDA i : i.category = activeCategory)

BlankForm(category) ==
  [name |-> "", price |-> "", url |-> << >>, category |-> category,
   currentImageKey |-> ""]

---------------------------------------------------------------------------
(* Client: what the user can enter *)

NameInputs == {"a"}
PriceInputs == {"12.50"}
UrlInputs == {<<"example.com">>, <<"http://", "example.com">>, <<Blank>>}
CategoryInputs == categories \ {"All"}

---------------------------------------------------------------------------
(* Client: handlers *)

\* fetchItems, the request: fetch('/api/items')
FetchItems == gets' = gets + 1

\* app.get('/api/items') serving a request of fetchItems
ServeGet ==
  /\ gets > 0
  /\ Cardinality(resps) < MaxGets
  /\ gets' = gets - 1
  /\ \E list \in GetItems(db) : resps' = resps \cup {list}
  /\ UNCHANGED <<serverVars, apiVars, items, activeCategory, isModalOpen,
                 isSubmitting, editingItem, formData, alerts, call, puts,
                 lastDrag, track, outcome>>

\* what the component reads of an item it holds: priority and created_at of
\* the client's copies are never read, and are left out of them
Item(r) ==
  [id |-> r.id, name |-> r.name, price |-> r.price, url |-> r.url,
   image_key |-> r.image_key, category |-> r.category]

\* fetchItems, the continuation: .then((data) => setItems(data))
ReceiveItems ==
  /\ \E list \in resps :
       /\ items' = [k \in 1..Len(list) |-> Item(list[k])]
       /\ resps' = resps \ {list}
  /\ UNCHANGED <<serverVars, apiVars, activeCategory, isModalOpen, isSubmitting,
                 editingItem, formData, alerts, call, gets, puts, lastDrag, track,
                 outcome>>

\* onClick={() => setActiveCategory(cat)}
SetActiveCategory(cat) ==
  /\ ~isModalOpen
  /\ activeCategory' = cat
  /\ UNCHANGED <<serverVars, apiVars, items, isModalOpen, isSubmitting,
                 editingItem, formData, alerts, call, gets, resps, puts,
                 lastDrag, track, outcome>>

\* openModal(item?): from the "Add New" button, or the edit button of a
\* rendered item; of editingItem only the id is read afterwards
OpenModal(item) ==
  /\ ~isModalOpen
  /\ IF item # NoItem
     THEN /\ editingItem' = [id |-> item.id]
          /\ formData' = [name |-> item.name,
                          price |-> NumberToString(item.price),
                          url |-> item.url,
                          category |-> item.category,
                          currentImageKey |-> item.image_key]
     ELSE /\ editingItem' = NoItem
          /\ formData' = BlankForm(IF activeCategory = "All" THEN "Toys"
                                   ELSE activeCategory)
  /\ isModalOpen' = TRUE
  /\ UNCHANGED <<serverVars, apiVars, items, activeCategory, isSubmitting,
                 alerts, call, gets, resps, puts, lastDrag, track, outcome>>

\* the X button: onClick={() => setIsModalOpen(false)}
CloseModal ==
  /\ isModalOpen
  /\ isModalOpen' = FALSE
  /\ UNCHANGED <<serverVars, apiVars, items, activeCategory, isSubmitting,
                 editingItem, formData, alerts, call, gets, resps, puts,
                 lastDrag, track, outcome>>

\* the onChange handlers of the form: setFormData({...formData, field: value})
SetFormData(field, value) ==
  /\ isModalOpen
  /\ formData' = [formData EXCEPT ![field] = value]
  /\ UNCHANGED <<serverVars, apiVars, items, activeCategory, isModalOpen,
                 isSubmitting, editingItem, alerts, call, gets, resps, puts,
                 lastDrag, track, outcome>>

\* handleSubmit up to its await: the browser submits the form only with the
\* `required` inputs filled; no image file is chosen.  call.form is the
\* formData of the handler's closure
HandleSubmit ==
  /\ isModalOpen
  /\ formData.name # "" /\ formData.price # "" /\ formData.url # << >>
  /\ ~isSubmitting
  /\ isSubmitting' = TRUE
  /\ LET payload == [name |-> {formData.name},
                     price |-> {ParseFloat(formData.price)},
                     url |-> {SubmitUrl(formData.url)},
                     category |-> {formData.category},
                     image_key |-> {formData.currentImageKey},
                     priority |-> IF editingItem # NoItem THEN Absent
                                  ELSE {Len(items)}]
     IN call' = IF editingItem # NoItem
                THEN [kind |-> "PUT", id |-> editingItem.id, body |-> payload,
                      form |-> formData]
                ELSE [kind |-> "POST", id |-> 0, body |-> payload,
                      form |-> formData]
  /\ UNCHANGED <<serverVars, apiVars, items, activeCategory, isModalOpen,
                 editingItem, formData, alerts, gets, resps, puts, lastDrag, track,
                 outcome>>

\* handleDelete up to its await; the user confirms
HandleDelete ==
  /\ isModalOpen
  /\ editingItem # NoItem
  /\ ~isSubmitting
  /\ isSubmitting' = TRUE
  /\ call' = [kind |-> "DELETE", id |-> editingItem.id, body |-> EmptyBody,
              form |-> formData]
  /\ UNCHANGED <<serverVars, apiVars, items, activeCategory, isModalOpen,
                 editingItem, formData, alerts, gets, resps, puts, lastDrag, track,
                 outcome>>

\* the server's handling of the modal's request
Serve(c) ==
  IF c.kind = "POST" THEN PostItem(db, nextId, now, c.body)
  ELSE IF c.kind = "PUT" THEN [id |-> 0] @@ PutItem(db, c.id, c.body)
  ELSE [id |-> 0] @@ DeleteItem(db, c.id)

\* after the await of handleSubmit / handleDelete when fetch resolves
\* (whatever the status): setIsModalOpen(false); fetchItems(); finally
\* setIsSubmitting(false)
Resolved ==
  /\ isModalOpen' = FALSE
  /\ FetchItems
  /\ isSubmitting' = FALSE
  /\ UNCHANGED alerts

\* the catch of handleSubmit: alert("Failed to save item."); of handleDelete:
\* console.error only
Rejected ==
  /\ alerts' = IF call.kind = "DELETE" THEN alerts ELSE alerts + 1
  /\ isSubmitting' = FALSE
  /\ UNCHANGED <<isModalOpen, gets>>

\* the request is handled and answered 200 or, on an exception, 500
CallServed ==
  /\ call # NoCall
  /\ gets < MaxGets
  /\ LET r == Serve(call)
     IN /\ db' = r.db
        /\ nextId' = IF r.id # 0 THEN nextId + 1 ELSE nextId
        /\ outcome' = IF r.status = 200 THEN "ok" ELSE "httperr"
  /\ Resolved
  /\ call' = NoCall
  /\ UNCHANGED <<now, apiVars, items, activeCategory, editingItem, formData,
                 resps, puts, lastDrag, track>>

\* the store fails (StorageError): the request is answered 500
CallStorageError ==
  /\ call # NoCall
  /\ gets < MaxGets
  /\ outcome' = "httperr"
  /\ Resolved
  /\ call' = NoCall
  /\ UNCHANGED <<serverVars, apiVars, items, activeCategory, editingItem,
                 formData, resps, puts, lastDrag, track>>

\* the network fails: fetch rejects
CallNetworkError ==
  /\ call # NoCall
  /\ alerts < MaxAlerts
  /\ outcome' = "neterr"
  /\ Rejected
  /\ call' = NoCall
  /\ UNCHANGED <<serverVars, apiVars, items, activeCategory, editingItem,
                 formData, resps, puts, lastDrag, track>>

---------------------------------------------------------------------------
(* Client: reordering *)

\* the requests still in flight when a later drag ends are no longer of the
\* last drag
Older(list) == [k \in 1..Len(list) |-> [list[k] EXCEPT !.cur = FALSE]]

\* the priorities count down from the head of the list
SaveNewOrderReversed(newItems) ==
  [k \in 1..Len(newItems) |->
     [id |-> newItems[k].id, priority |-> Len(newItems) - k, cur |-> TRUE]]

\* newItems.forEach((item, index) => fetch(`/api/items/${item.id}`,
\*   {method: 'PUT', body: JSON.stringify({ priority: index })}))
SaveNewOrder(newItems) ==
  [k \in 1..Len(newItems) |->
     [id |-> newItems[k].id, priority |-> k - 1, cur |-> TRUE]]

\* handleDragEnd working on filteredItems instead of items
handleDragEndInView(active, over) ==
  /\ active \in Range(ItemIds(filteredItems))
  /\ over \in Range(ItemIds(filteredItems))
  /\ active # over => Len(puts) + Len(items) <= MaxInFlight
  /\ LET oldIndex == FindIndex(filteredItems, active)
         newIndex == FindIndex(filteredItems, over)
         newItems == ArrayMove(filteredItems, oldIndex, newIndex)
     IN IF active # over
        THEN /\ items' = newItems
             /\ puts' = Older(puts) \o SaveNewOrder(newItems)
        ELSE UNCHANGED <<items, puts>>
  /\ UNCHANGED <<serverVars, apiVars, activeCategory, isModalOpen, isSubmitting,
                 editingItem, formData, alerts, call, gets, resps, outcome>>

\* handleDragEnd without the test active.id !== over.id
handleDragEndUntested(active, over) ==
  /\ active \in Range(ItemIds(filteredItems))
  /\ over \in Range(ItemIds(filteredItems))
  /\ Len(puts) + Len(items) <= MaxInFlight
  /\ LET oldIndex == FindIndex(items, active)
         newIndex == FindIndex(items, over)
         newItems == ArrayMove(items, oldIndex, newIndex)
     IN /\ items' = newItems
        /\ puts' = Older(puts) \o SaveNewOrder(newItems)
  /\ UNCHANGED <<serverVars, apiVars, activeCategory, isModalOpen, isSubmitting,
                 editingItem, formData, alerts, call, gets, resps, outcome>>

\* handleDragEnd(event) with event.active.id = active, event.over.id = over:
\* both are items of the SortableContext (closestCenter always finds one)
handleDragEnd(active, over) ==
  /\ active \in Range(ItemIds(filteredItems))
  /\ over \in Range(ItemIds(filteredItems))
  /\ active # over => Len(puts) + Len(items) <= MaxInFlight
  /\ LET oldIndex == FindIndex(items, active)
         newIndex == FindIndex(items, over)
         newItems == ArrayMove(items, oldIndex, newIndex)
     IN IF active # over
        THEN /\ items' = newItems
             /\ puts' = Older(puts) \o SaveNewOrder(newItems)
        ELSE UNCHANGED <<items, puts>>
  /\ UNCHANGED <<serverVars, apiVars, activeCategory, isModalOpen, isSubmitting,
                 editingItem, formData, alerts, call, gets, resps, outcome>>

\* the stored priority of each item of the client's list that has a row
StoredPriorities ==
  [i \in Range(ItemIds(items)) \cap DOMAIN db |-> db[i].priority]

\* history of the drag that just ended: the event, the view and the list it
\* found, the list it left, whether no earlier request was still in flight,
\* and `pre`, what the history keeps of the store before the drag
DragRecorded(active, over, pre) ==
  /\ lastDrag' = [active |-> active, over |-> over,
                  category |-> activeCategory,
                  view |-> ItemIds(filteredItems),
                  old |-> ItemIds(items),
                  new |-> ItemIds(items'),
                  pre |-> pre,
                  clean |-> puts = << >>]
  /\ track' = IF active # over
              THEN [moved |-> TRUE, failed |-> {}, overtaken |-> FALSE]
              ELSE track

JustPriority(n) == [EmptyBody EXCEPT !.priority = {n}]

\* app.put('/api/items/:id') serving the k-th request in flight; requests
\* arrive in any order
ServePut(k) ==
  /\ k \in 1..Len(puts)
  /\ db' = PutItem(db, puts[k].id, JustPriority(puts[k].priority)).db
  /\ puts' = RemoveAt(puts, k - 1)
  /\ UNCHANGED <<nextId, now, apiVars, items, activeCategory, isModalOpen,
                 isSubmitting, editingItem, formData, alerts, call, gets, resps,
                 outcome>>

\* history: a request was served while an earlier one for the same item was
\* still in flight
ServeRecorded(k) ==
  /\ track' = [track EXCEPT !.overtaken =
                 @ \/ \E m \in 1..(k - 1) : puts[m].id = puts[k].id]
  /\ UNCHANGED lastDrag

\* a failed request ends the loop: the requests after it are never sent
FailPutAborts(k) ==
  /\ k \in 1..Len(puts)
  /\ puts' = SubSeq(puts, 1, k - 1)
  /\ UNCHANGED <<serverVars, apiVars, items, activeCategory, isModalOpen,
                 isSubmitting, editingItem, formData, alerts, call, gets, resps,
                 outcome>>

\* the k-th request in flight fails (the network, or the store): nothing
\* awaits or catches it
FailPut(k) ==
  /\ k \in 1..Len(puts)
  /\ puts' = RemoveAt(puts, k - 1)
  /\ UNCHANGED <<serverVars, apiVars, items, activeCategory, isModalOpen,
                 isSubmitting, editingItem, formData, alerts, call, gets, resps,
                 outcome>>

\* history: which requests of the last reorder failed
FailRecorded(k) ==
  /\ track' = [track EXCEPT !.failed = IF puts[k].cur THEN @ \cup {puts[k].id}
                                       ELSE @]
  /\ UNCHANGED lastDrag

---------------------------------------------------------------------------
(* The modal: the page loaded against the empty table of schema.sql *)

\* useEffect(() => { fetchItems(); }, [])
InitForm ==
  /\ db = << >>
  /\ nextId = 1
  /\ now = 0
  /\ req = NoReq
  /\ reply = NoReq
  /\ items = << >>
  /\ activeCategory = "All"
  /\ isModalOpen = FALSE
  /\ isSubmitting = FALSE
  /\ editingItem = NoItem
  /\ formData = BlankForm("Toys")
  /\ alerts = 0
  /\ call = NoCall
  /\ gets = 1
  /\ resps = {}
  /\ puts = << >>
  /\ lastDrag = NoDrag
  /\ track = NoTrack
  /\ outcome = "none"

NextForm ==
  \/ ServeGet
  \/ ReceiveItems
  \/ OpenModal(NoItem)
  \/ \E k \in 1..Len(filteredItems) : OpenModal(filteredItems[k])
  \/ CloseModal
  \/ \E v \in NameInputs : SetFormData("name", v)
  \/ \E v \in PriceInputs : SetFormData("price", v)
  \/ \E v \in UrlInputs : SetFormData("url", v)
  \/ nextId <= MaxFormRows /\ HandleSubmit
  \/ HandleDelete
  \/ CallServed
  \/ CallStorageError
  \/ CallNetworkError

SpecForm == InitForm /\ [][NextForm]_vars

---------------------------------------------------------------------------
(* The reorder protocol: the page loaded against a table that holds rows *)

\* the priorities of the rows: all different, as a reorder leaves them, or
\* all the default 0
StartPriorities ==
  {p \in [1..MaxRows -> 0..(MaxRows - 1)] :
     \/ \A i, j \in 1..MaxRows : i # j => p[i] # p[j]
     \/ \A i \in 1..MaxRows : p[i] = 0}

\* rows as the modal creates them, in two categories
Stores ==
  {[i \in 1..MaxRows |->
      [name |-> "a", price |-> "12.5", url |-> <<"https://", "example.com">>,
       image_key |-> "", category |-> IF i % 3 = 0 THEN "Tech" ELSE "Toys",
       priority |-> p[i], created_at |-> 0]] :
     p \in StartPriorities}

Init ==
  /\ db \in Stores
  /\ nextId = MaxRows + 1
  /\ now = 0
  /\ req = NoReq
  /\ reply = NoReq
  /\ items = << >>
  /\ activeCategory = "All"
  /\ isModalOpen = FALSE
  /\ isSubmitting = FALSE
  /\ editingItem = NoItem
  /\ formData = BlankForm("Toys")
  /\ alerts = 0
  /\ call = NoCall
  /\ gets = 1
  /\ resps = {}
  /\ puts = << >>
  /\ lastDrag = NoDrag
  /\ track = NoTrack
  /\ outcome = "none"

\* drags in the unfiltered view, also while requests of earlier drags are in
\* flight; requests are served in any order
Next ==
  \/ ServeGet
  \/ ReceiveItems
  \/ \E active, over \in 1..MaxRows :
       handleDragEnd(active, over) /\ DragRecorded(active, over, << >>)
  \/ \E k \in 1..MaxInFlight : ServePut(k) /\ ServeRecorded(k)

Spec == Init /\ [][Next]_vars

\* drags in the unfiltered view, each after the requests of the one before
\* have ended; requests are served in any order, or fail
NextFail ==
  \/ ServeGet
  \/ ReceiveItems
  \/ \E active, over \in 1..MaxRows :
       /\ puts = << >>
       /\ handleDragEnd(active, over)
       /\ DragRecorded(active, over, StoredPriorities)
  \/ \E k \in 1..MaxRows : ServePut(k) /\ ServeRecorded(k)
  \/ \E k \in 1..MaxRows : FailPut(k) /\ FailRecorded(k)

SpecFail == Init /\ [][NextFail]_vars

\* drags in any view; requests are served in any order
NextFilter ==
  \/ ServeGet
  \/ ReceiveItems
  \/ \E cat \in categories : SetActiveCategory(cat)
  \/ \E active, over \in 1..MaxRows :
       handleDragEnd(active, over) /\ DragRecorded(active, over, << >>)
  \/ \E k \in 1..MaxInFlight : ServePut(k) /\ ServeRecorded(k)

SpecFilter == Init /\ [][NextFilter]_vars

---------------------------------------------------------------------------
(* Creates, deletes and reorders through the page, the clock advancing *)

\* the form is filled with one name, price and url; items are created,
\* edited, deleted and, while the page is at rest, dragged (each drag's
\* requests are served in any order, before the modal is opened again)
NextCreate ==
  \/ ServeGet
  \/ ReceiveItems
  \/ puts = << >> /\ OpenModal(NoItem)
  \/ \E k \in 1..Len(filteredItems) : puts = << >> /\ OpenModal(filteredItems[k])
  \/ \E v \in NameInputs : SetFormData("name", v)
  \/ \E v \in PriceInputs : SetFormData("price", v)
  \/ SetFormData("url", <<"example.com">>)
  \/ nextId <= MaxCreateRows /\ HandleSubmit
  \/ HandleDelete
  \/ CallServed
  \/ \E active, over \in 1..MaxCreateRows :
       /\ ~isModalOpen /\ gets = 0 /\ resps = {} /\ puts = << >>
       /\ handleDragEnd(active, over)
       /\ UNCHANGED <<lastDrag, track>>
  \/ \E k \in 1..MaxInFlight : ServePut(k) /\ UNCHANGED <<lastDrag, track>>
  \/ Tick

SpecCreate == InitForm /\ [][NextCreate]_vars

---------------------------------------------------------------------------
(* Properties of reordering *)

\* the position (from 1) of id x in a sequence of ids
PositionOf(ids, x) == CHOOSE k \in 1..Len(ids) : ids[k] = x

\* a sequence of ids without its k-th
Without(ids, k) ==
  [m \in 1..(Len(ids) - 1) |-> IF m < k THEN ids[m] ELSE ids[m + 1]]

\* `new` is `old` with the element at position i removed and reinserted at
\* position j
IsMove(old, new, i, j) ==
  /\ Len(new) = Len(old)
  /\ new[j] = old[i]
  /\ Without(new, j) = Without(old, i)

\* the last drag moved an item
Moved == lastDrag.active # lastDrag.over

\* every stored item of the id list has the priority of its index (from 0)
PrioritiesAreIndexes(ids) ==
  \A k \in 1..Len(ids) : ids[k] \in DOMAIN db /\ db[ids[k]].priority = k - 1

\* every listing the store can return has its items in the given order
ListingIs(ids) == \A list \in GetItems(db) : ItemIds(list) = ids

\* C1: a drag in the unfiltered view that drops the item at position i on the
\* item at position j leaves the client's list with that item removed and
\* reinserted at j (dragging A onto C in A,B,C gives B,C,A), and once the
\* updates it issued have all been applied, every item's stored priority is
\* its index in that list
C1_DragMovesAndPersists ==
  (Moved /\ lastDrag.category = "All") =>
    /\ IsMove(lastDrag.old, lastDrag.new,
              PositionOf(lastDrag.old, lastDrag.active),
              PositionOf(lastDrag.old, lastDrag.over))
    /\ (lastDrag.old = <<1, 2, 3>> /\ lastDrag.active = 1 /\ lastDrag.over = 3)
         => lastDrag.new = <<2, 3, 1>>
    /\ (lastDrag.clean /\ puts = << >> /\ track.failed = {})
         => PrioritiesAreIndexes(lastDrag.new)

\* C1 witness: A was dragged onto C in the list A,B,C and the three updates
\* were applied: B,C,A are stored with the priorities 0,1,2
C1_Witness ==
  /\ lastDrag.old = <<1, 2, 3>>
  /\ lastDrag.active = 1 /\ lastDrag.over = 3
  /\ lastDrag.clean /\ puts = << >> /\ track.failed = {}
  /\ ItemIds(items) = <<2, 3, 1>>
  /\ db[2].priority = 0 /\ db[3].priority = 1 /\ db[1].priority = 2

\* C3 (as the spec states it): the second of the three updates of a drag
\* fails; the first item has its new priority, the second and the third keep
\* the priority they had
C3_Original ==
  (Moved /\ lastDrag.clean /\ Len(lastDrag.new) = 3 /\ puts = << >>
     /\ track.failed = {lastDrag.new[2]}) =>
    /\ db[lastDrag.new[1]].priority = 0
    /\ db[lastDrag.new[2]].priority = lastDrag.pre[lastDrag.new[2]]
    /\ db[lastDrag.new[3]].priority = lastDrag.pre[lastDrag.new[3]]

\* C3 (amended): the second of the three updates of a drag fails; the three
\* were sent without waiting for one another, so the first and the third item
\* have their new priorities 0 and 2, and the second keeps the priority it had:
\* nothing is retried, nothing is rolled back
C3_FailedUpdateIsSkipped ==
  (Moved /\ lastDrag.clean /\ Len(lastDrag.new) = 3 /\ puts = << >>
     /\ track.failed = {lastDrag.new[2]}) =>
    /\ db[lastDrag.new[1]].priority = 0
    /\ db[lastDrag.new[2]].priority = lastDrag.pre[lastDrag.new[2]]
    /\ db[lastDrag.new[3]].priority = 2

\* C3 witness: the second update failed, the others were applied, and each of
\* the three items had another priority than the one the drag gave it
C3_Witness ==
  /\ Moved /\ lastDrag.clean /\ Len(lastDrag.new) = 3 /\ puts = << >>
  /\ track.failed = {lastDrag.new[2]}
  /\ \A k \in 1..3 : lastDrag.pre[lastDrag.new[k]] # k - 1
  /\ db[lastDrag.new[3]].priority = 2

\* C9: a drag that drops an item on itself leaves the client's list and the
\* store as they were and sends no update, so no listing changes its order,
\* however often it is repeated
C9_SelfDropChangesNothing ==
  [][(lastDrag' # lastDrag /\ lastDrag'.active = lastDrag'.over) =>
       /\ items' = items
       /\ puts' = puts
       /\ db' = db
       /\ GetItems(db') = GetItems(db)]_vars

\* C9 witness: an item of a list of three was dropped on itself while the
\* updates of an earlier drag were in flight
C9_Witness ==
  /\ lastDrag.active # 0
  /\ lastDrag.active = lastDrag.over
  /\ Len(items) = 3
  /\ lastDrag.new = lastDrag.old
  /\ puts # << >>

\* C10 (as the spec states it): after drags in the unfiltered view with no
\* request failing, once every update has been applied, in whatever order they
\* arrived, a listing returns the items in the order of the client's list
C10_Original ==
  (track.moved /\ puts = << >>) => ListingIs(ItemIds(items))

\* C10 (amended): after drags in the unfiltered view with no request failing,
\* once every update has been applied, the updates of each single item in the
\* order they were issued and those of different items in any order, a listing
\* returns the items in the order of the client's list
C10_InOrderPerItem ==
  (track.moved /\ ~track.overtaken /\ puts = << >>)
    => ListingIs(ItemIds(items))

\* C10 witness: two drags, the second while an update of the first was in
\* flight; all updates were applied, each item's in the order issued
C10_Witness ==
  /\ track.moved /\ ~track.overtaken /\ puts = << >>
  /\ Moved /\ ~lastDrag.clean
  /\ ListingIs(ItemIds(items))

---------------------------------------------------------------------------
(* Properties of the item API *)

\* a list of rows is in the order of ORDER BY priority ASC, created_at DESC
IsSorted(list) ==
  \A k \in 1..(Len(list) - 1) :
    \/ list[k].priority < list[k + 1].priority
    \/ /\ list[k].priority = list[k + 1].priority
       /\ list[k].created_at >= list[k + 1].created_at

\* C4: after any inserts, updates, deletes and priority updates, the list GET
\* returns holds exactly the stored rows, by ascending priority, and rows of
\* equal priority by descending creation time
C4_ListingIsSorted ==
  reply.op = "GET" =>
    /\ IsSorted(reply.list)
    /\ Len(reply.list) = Cardinality(DOMAIN db)
    /\ \A i \in DOMAIN db : \E k \in 1..Len(reply.list) : reply.list[k] = Result(db, i)

\* C4 witness: a listing of three rows, two of them of one priority and of
\* different creation times, the third of a lower priority and created first
C4_Witness ==
  /\ reply.op = "GET"
  /\ Len(reply.list) = 3
  /\ reply.list[1].priority < reply.list[2].priority
  /\ reply.list[2].priority = reply.list[3].priority
  /\ reply.list[2].created_at > reply.list[3].created_at
  /\ reply.list[1].id > reply.list[2].id

\* the step in which the server answers the request in flight
Answers(op) == req.op = op /\ req' = NoReq

C6_Original ==
  [][(Answers("POST") /\ \E f \in {"name", "price"} :
                           ~Present(req.body, f) \/ req.body[f] = {Null}) =>
       /\ reply'.status \in 400..499
       /\ db' = db]_vars

---------------------------------------------------------------------------
(* Properties of the modal *)

\* the step in which the modal's request of one of the kinds ends, that way
Ends(kinds, ways) ==
  /\ call # NoCall
  /\ call.kind \in kinds
  /\ call' = NoCall
  /\ outcome' \in ways

\* C7 (as the spec states it): when the modal creates an item or updates one
\* with the url u typed into the form, the url stored is u if u starts with
\* http:// or https://, and https:// followed by u otherwise, so that every
\* stored url has a scheme
C7_Original ==
  [][Ends({"POST", "PUT"}, {"ok"}) =>
       LET u == call.form.url
           id == IF call.kind = "POST" THEN nextId ELSE call.id
       IN /\ id \in DOMAIN db' =>
               db'[id].url = IF u # << >> /\ Head(u) \in {"http://", "https://"}
                             THEN u ELSE <<"https://">> \o u
          /\ \A i \in DOMAIN db' : HasScheme(db'[i].url)]_vars

\* C8 (as the spec states it): when a create, update or delete sent from the
\* modal fails, by the network or by an error response of the server, the
\* modal stays as it was, the form keeps its state and a notice is shown
C8_Original ==
  [][Ends({"POST", "PUT", "DELETE"}, {"httperr", "neterr"}) =>
       /\ isModalOpen' = isModalOpen
       /\ formData' = formData
       /\ alerts' = alerts + 1]_vars

\* C11 (as the code suggests it): an item created through the form, sent with
\* the length of the client's list as its priority while that list holds as
\* many items as the table holds rows and no update is in flight, is the last
\* element of the listing fetched right after (of one of the listings, where
\* the ORDER BY leaves the order open)
C11_Original ==
  [][(/\ Ends({"POST"}, {"ok"})
      /\ call.body.priority = {Cardinality(DOMAIN db)}
      /\ puts = << >>) =>
       \E list \in GetItems(db') : list[Len(list)].id = nextId]_vars

====
